---------------------------- MODULE Spec2Model ----------------------------
(***************************************************************************)
(* A model of the CDU converter of saulojdsf/WebCDU (backend):             *)
(*   - extract_dcdu_blocks and parse_dcdu_block   (backend/cdu_parser.py)  *)
(*   - dcdu_to_reactflow                  (backend/cdu_json_converter.py)  *)
(*   - generate_cdu_from_blocks         (backend/exporter/cdu_generator.py)*)
(*                                                                         *)
(* Text is modelled at character level: a Python str is a sequence of      *)
(* one-character strings, so that slicing, strip(), upper(), ljust() and   *)
(* substring tests are computed as the code computes them.  A physical     *)
(* line is modelled without its trailing "\n": every use of a line in the  *)
(* code either rstrip()s the newline or strip()s the slice it takes.       *)
(***************************************************************************)
EXTENDS Integers, Sequences, FiniteSets, TLC

(***************************************************************************)
(* Python string primitives                                                *)
(***************************************************************************)
LowerLetters ==
    <<"a","b","c","d","e","f","g","h","i","j","k","l","m",
      "n","o","p","q","r","s","t","u","v","w","x","y","z">>

UpperLetters ==
    <<"A","B","C","D","E","F","G","H","I","J","K","L","M",
      "N","O","P","Q","R","S","T","U","V","W","X","Y","Z">>

DigitChars == <<"0","1","2","3","4","5","6","7","8","9">>

Range(f) == {f[k] : k \in DOMAIN f}

LowerSet == Range(LowerLetters)

UpperSet == Range(UpperLetters)

DigitSet == Range(DigitChars)

\* str.isspace() for the characters of the model
Whitespace == {" ", "\t", "\n"}

\* the table of str.upper() on lower-case letters
ToUpper == [c \in LowerSet |-> UpperLetters[CHOOSE k \in DOMAIN LowerLetters : LowerLetters[k] = c]]

\* the table of str.lower() on upper-case letters
ToLower == [c \in UpperSet |-> LowerLetters[CHOOSE k \in DOMAIN UpperLetters : UpperLetters[k] = c]]

\* str.upper() on one character
UpperChar(c) == IF c \in LowerSet THEN ToUpper[c] ELSE c

\* str.lower() on one character
LowerChar(c) == IF c \in UpperSet THEN ToLower[c] ELSE c

\* s.upper()
Upper(s) == [k \in 1..Len(s) |-> UpperChar(s[k])]

\* s.lower()
Lower(s) == [k \in 1..Len(s) |-> LowerChar(s[k])]

\* s[a:b] with 0-based a, end-exclusive b, clipped to the string as Python does
Slice(s, a, b) == SubSeq(s, a + 1, IF b < Len(s) THEN b ELSE Len(s))

\* s[a:]
SliceFrom(s, a) == SubSeq(s, a + 1, Len(s))

\* s[k] with 0-based k
At(s, k) == s[k + 1]

\* s.ljust(n)
Ljust(s, n) == IF Len(s) >= n THEN s ELSE s \o [k \in 1..(n - Len(s)) |-> " "]

RECURSIVE LStrip(_)
\* s.lstrip()
LStrip(s) == IF s = <<>> \/ Head(s) \notin Whitespace THEN s ELSE LStrip(Tail(s))

RECURSIVE RStrip(_)
\* s.rstrip()
RStrip(s) ==
    IF s = <<>> \/ s[Len(s)] \notin Whitespace THEN s ELSE RStrip(SubSeq(s, 1, Len(s) - 1))

\* s.strip()
Strip(s) == RStrip(LStrip(s))

\* s.startswith(p)
StartsWith(s, p) == Len(s) >= Len(p) /\ SubSeq(s, 1, Len(p)) = p

\* p in s
Contains(s, p) == \E k \in 0..(Len(s) - Len(p)) : SubSeq(s, k + 1, k + Len(p)) = p

RECURSIVE RunLength(_, _, _)
\* the number of characters of s from 1-based position `from` on that are in Class
RunLength(s, from, Class) ==
    IF from > Len(s) \/ s[from] \notin Class THEN 0 ELSE 1 + RunLength(s, from + 1, Class)

\* c.isalnum() for the ASCII characters of the model
IsAlnum(c) == c \in LowerSet \cup UpperSet \cup DigitSet

\* ''.join(filter(str.isalnum, s))
FilterAlnum(s) == SelectSeq(s, IsAlnum)

\* n spaces
Sp(n) == [k \in 1..n |-> " "]

(***************************************************************************)
(* Words of the CDU format                                                 *)
(***************************************************************************)
W_DCDU == <<"D","C","D","U">>

W_FIMCDU == <<"F","I","M","C","D","U">>

W_fimcdu == <<"f","i","m","c","d","u">>

W_DEFPAR == <<"D","E","F","P","A","R">>

W_DEFVAL == <<"D","E","F","V","A","L">>

W_SENTINEL == <<"9","9","9","9","9","9">>

W_PSS == <<"P","S","S">>

W_SOMA == <<"S","O","M","A">>

W_COMPAR == <<"C","O","M","P","A","R">>

W_GANHO == <<"G","A","N","H","O">>

W_IMPORT == <<"I","M","P","O","R","T">>

W_EXPORT == <<"E","X","P","O","R","T">>

W_ENTRAD == <<"E","N","T","R","A","D">>

W_FUNCAO == <<"F","U","N","C","A","O">>

(***************************************************************************)
(* Physical lines the inputs are drawn from.  Block records are laid out   *)
(* on the columns parse_bloco_line slices: nb 0-3, i 4, tipo 5-10, o 11,   *)
(* stip 12-17, s 18, vent 19-24, vsai 26-31.                               *)
(***************************************************************************)
\* "     1 PSS DCDU": a diagram header whose number ends in column 5
LineHeader == Sp(5) \o <<"1">> \o Sp(1) \o W_PSS \o Sp(1) \o W_DCDU

\* "2 FIMCDU DCDU": a flush-left header of a diagram named FIMCDU
LineHeaderFim == <<"2">> \o Sp(1) \o W_FIMCDU \o Sp(1) \o W_DCDU

\* "( C": a comment line
LineComment == <<"(", " ", "C">>

\* "  ": a blank line
LineBlank == Sp(2)

\* "DEFPAR K"
LineDefpar == W_DEFPAR \o Sp(1) \o <<"K">>

\* "DEFVAL V"
LineDefval == W_DEFVAL \o Sp(1) \o <<"V">>

\* "   1 SOMA         +X1    Y": a block of a multi-line type
LineSoma ==
    Sp(3) \o <<"1">> \o Sp(1) \o W_SOMA \o Sp(9) \o <<"+">> \o <<"X","1">> \o Sp(5) \o <<"Y">>

\* "   3 COMPAR        A1    B": a block of a multi-line type
LineCompar ==
    Sp(3) \o <<"3">> \o Sp(1) \o W_COMPAR \o Sp(8) \o <<"A","1">> \o Sp(5) \o <<"B">>

\* "   2 GANHO         Y     Z": a block of a single-line type
LineGanho ==
    Sp(3) \o <<"2">> \o Sp(1) \o W_GANHO \o Sp(9) \o <<"Y">> \o Sp(6) \o <<"Z">>

\* "                  -X2": a record whose type column is blank
LineCont == Sp(18) \o <<"-">> \o <<"X","2">>

\* "FIMCDU"
LineFim == W_FIMCDU

\* "            fimcdu": the end marker, indented past the type column
LineFimIndented == Sp(12) \o W_fimcdu

\* "999999"
LineSentinel == W_SENTINEL


(***************************************************************************)
(* Bounds of the model                                                     *)
(***************************************************************************)
\* the longest input text given to extract_dcdu_blocks, in lines
MaxLines == 4

\* the longest body (lines between header and FIMCDU) given to parse_dcdu_block
MaxBody == 3

\* the most blocks of a diagram given to dcdu_to_reactflow
MaxBlocks == 2

\* the most block descriptors given to generate_cdu_from_blocks
MaxGenBlocks == 2

\* all sequences over S of length 0..n
SeqsUpTo(S, n) == UNION {[1..m -> S] : m \in 0..n}

VARIABLES
    \* extract_dcdu_blocks
    text,             \* the lines of the file, in order
    pos,              \* 1-based position of `for line in f`
    all_dcdu_blocks,  \* the list of captured line lists
    current_block,    \* the lines of the section in progress
    in_dcdu_block,    \* whether a section is in progress
    epc,              \* "idle" | "loop" | "done"
    \* parse_dcdu_block
    block_lines,      \* the argument
    it,               \* 0-based index of the element lines_iterator yields next
    i,                \* the loop variable i
    bloco,            \* the bloco being assembled
    dcdu_data,        \* the result dictionary
    handled,          \* history: <<index, kind>> of every line handled, in order
    ppc,              \* "idle" | "start" | "loop" | "peek" | "done" | "raised"
    \* dcdu_to_reactflow
    d,                \* the DCDU argument
    var_to_node,      \* the dict, a function from variable to node id
    nodes,
    edges,
    gk,               \* 1-based index into all_blocks of the running loop
    gpc,              \* "idle" | "index" | "nodes" | "edges" | "done"
    \* generate_cdu_from_blocks
    blocks,           \* the argument
    lines,            \* the list of output lines
    gi,               \* 1-based index of `for block in blocks`
    result,           \* the returned text
    xpc               \* "idle" | "loop" | "done" | "raised"

extractVars == <<text, pos, all_dcdu_blocks, current_block, in_dcdu_block, epc>>

parseVars == <<block_lines, it, i, bloco, dcdu_data, handled, ppc>>

graphVars == <<d, var_to_node, nodes, edges, gk, gpc>>

genVars == <<blocks, lines, gi, result, xpc>>

vars == <<extractVars, parseVars, graphVars, genVars>>

ExtractIdle ==
    /\ text = <<>> /\ pos = 0 /\ all_dcdu_blocks = <<>> /\ current_block = <<>>
    /\ in_dcdu_block = FALSE /\ epc = "idle"

ParseIdle ==
    /\ block_lines = <<>> /\ it = 0 /\ i = 0 /\ bloco = <<>> /\ dcdu_data = <<>>
    /\ handled = <<>> /\ ppc = "idle"

GraphIdle ==
    /\ d = <<>> /\ var_to_node = <<>> /\ nodes = <<>> /\ edges = <<>> /\ gk = 0
    /\ gpc = "idle"

GenIdle ==
    /\ blocks = <<>> /\ lines = <<>> /\ gi = 0 /\ result = <<>> /\ xpc = "idle"

(***************************************************************************)
(* extract_dcdu_blocks (cdu_parser.py 6-55): one action per iteration of   *)
(* `for line in f`, by the branch the line takes.                          *)
(***************************************************************************)
ExtractLines ==
    {LineHeader, LineHeaderFim, LineComment, LineBlank, LineGanho, LineFim,
     LineFimIndented, LineSentinel}

\* "DCDU" in stripped_line.upper()
HasDcdu(line) == Contains(Upper(Strip(line)), W_DCDU)

\* "FIMCDU" in stripped_line.upper()
HasFimcdu(line) == Contains(Upper(Strip(line)), W_FIMCDU)

\* re.match(r'^\s*\d+\s+[A-Z0-9_]+', stripped_line)
MatchesHeader(line) ==
    LET s  == Strip(line)
        p0 == 1 + RunLength(s, 1, Whitespace)
        nd == RunLength(s, p0, DigitSet)
        p1 == p0 + nd
        ns == RunLength(s, p1, Whitespace)
        p2 == p1 + ns
    IN  /\ nd >= 1
        /\ ns >= 1
        /\ p2 <= Len(s)
        /\ s[p2] \in UpperSet \cup DigitSet \cup {"_"}

\* not stripped_line or stripped_line.startswith('(')
IsBlankOrComment(line) == Strip(line) = <<>> \/ StartsWith(Strip(line), <<"(">>)

\* the line opens a section: lines 31 and 37
OpensSection(line) == HasDcdu(line) /\ ~in_dcdu_block /\ MatchesHeader(line)

ExtractInit ==
    /\ text \in SeqsUpTo(ExtractLines, MaxLines)
    /\ pos = 1
    /\ all_dcdu_blocks = <<>>
    /\ current_block = <<>>
    /\ in_dcdu_block = FALSE
    /\ epc = "loop"
    /\ ParseIdle /\ GraphIdle /\ GenIdle

\* lines 28-29: blank and comment lines are dropped
ExtractSkip ==
    /\ epc = "loop" /\ pos <= Len(text)
    /\ IsBlankOrComment(text[pos])
    /\ pos' = pos + 1
    /\ UNCHANGED <<text, all_dcdu_blocks, current_block, in_dcdu_block, epc>>
    /\ UNCHANGED <<parseVars, graphVars, genVars>>

\* lines 31-40: the header line of a diagram opens a section
ExtractStart ==
    /\ epc = "loop" /\ pos <= Len(text)
    /\ ~IsBlankOrComment(text[pos])
    /\ OpensSection(text[pos])
    /\ in_dcdu_block' = TRUE
    /\ current_block' = <<text[pos]>>
    /\ pos' = pos + 1
    /\ UNCHANGED <<text, all_dcdu_blocks, epc>>
    /\ UNCHANGED <<parseVars, graphVars, genVars>>

\* lines 42-44: a line of the section in progress that does not end it
ExtractAppend ==
    /\ epc = "loop" /\ pos <= Len(text)
    /\ ~IsBlankOrComment(text[pos])
    /\ ~OpensSection(text[pos])
    /\ in_dcdu_block
    /\ ~HasFimcdu(text[pos])
    /\ current_block' = Append(current_block, text[pos])
    /\ pos' = pos + 1
    /\ UNCHANGED <<text, all_dcdu_blocks, in_dcdu_block, epc>>
    /\ UNCHANGED <<parseVars, graphVars, genVars>>

\* the mutant of ExtractClose that forgets `in_dcdu_block = False`
ExtractCloseStaysOpen ==
    /\ epc = "loop" /\ pos <= Len(text)
    /\ ~IsBlankOrComment(text[pos])
    /\ ~OpensSection(text[pos])
    /\ in_dcdu_block
    /\ HasFimcdu(text[pos])
    /\ all_dcdu_blocks' = Append(all_dcdu_blocks, Append(current_block, text[pos]))
    /\ current_block' = <<>>
    /\ pos' = pos + 1
    /\ UNCHANGED <<text, in_dcdu_block, epc>>
    /\ UNCHANGED <<parseVars, graphVars, genVars>>

\* lines 42-47: the FIMCDU line is appended and the section is captured
ExtractClose ==
    /\ epc = "loop" /\ pos <= Len(text)
    /\ ~IsBlankOrComment(text[pos])
    /\ ~OpensSection(text[pos])
    /\ in_dcdu_block
    /\ HasFimcdu(text[pos])
    /\ all_dcdu_blocks' = Append(all_dcdu_blocks, Append(current_block, text[pos]))
    /\ current_block' = <<>>
    /\ in_dcdu_block' = FALSE
    /\ pos' = pos + 1
    /\ UNCHANGED <<text, epc>>
    /\ UNCHANGED <<parseVars, graphVars, genVars>>

\* a line outside any section that opens none: no branch acts on it
ExtractOutside ==
    /\ epc = "loop" /\ pos <= Len(text)
    /\ ~IsBlankOrComment(text[pos])
    /\ ~OpensSection(text[pos])
    /\ ~in_dcdu_block
    /\ pos' = pos + 1
    /\ UNCHANGED <<text, all_dcdu_blocks, current_block, in_dcdu_block, epc>>
    /\ UNCHANGED <<parseVars, graphVars, genVars>>

\* line 55: the file is exhausted; whatever current_block holds is not returned
ExtractReturn ==
    /\ epc = "loop" /\ pos > Len(text)
    /\ epc' = "done"
    /\ UNCHANGED <<text, pos, all_dcdu_blocks, current_block, in_dcdu_block>>
    /\ UNCHANGED <<parseVars, graphVars, genVars>>

ExtractNext ==
    \/ ExtractSkip
    \/ ExtractStart
    \/ ExtractAppend
    \/ ExtractClose
    \/ ExtractOutside
    \/ ExtractReturn

SpecExtract == ExtractInit /\ [][ExtractNext]_vars

(***************************************************************************)
(* parse_dcdu_block (cdu_parser.py 57-174).  The argument is a line list   *)
(* as extract_dcdu_blocks returns it: a header line, lines that are        *)
(* neither blank nor comments nor FIMCDU lines, and a closing FIMCDU line. *)
(***************************************************************************)
ParseHeaders == {LineHeader, LineHeaderFim}

ParseBodyLines == {LineDefpar, LineDefval, LineSoma, LineCompar, LineGanho, LineCont}

ParseEnds == {LineFim, LineFimIndented}

\* the width parse_bloco_line and add_continuation_line pad a line to
PadWidth == 71

\* multi_line_types, lines 145-148
multi_line_types ==
    { <<"A","C","U","M">>, W_COMPAR, <<"D","I","V","S","A","O">>, W_FUNCAO,
      <<"I","N","T","R","E","S">>, <<"L","O","G","I","C">>, <<"M","A","X">>,
      <<"M","I","N">>, <<"M","U","L","T","P","L">>, <<"P","O","L","(","S",")">>,
      <<"S","/","H","O","L","D">>, <<"S","E","L","E","T","2">>, W_SOMA,
      <<"T","/","H","O","L","D">> }

\* int() accepts the text: an optional sign and a non-empty run of decimal digits
\* (surrounding blanks are stripped by the callers; no text of the model carries
\* an underscore)
IsIntLiteral(s) ==
    LET digits == IF s # <<>> /\ s[1] \in {"+", "-"} THEN Tail(s) ELSE s
    IN  digits # <<>> /\ \A k \in 1..Len(digits) : digits[k] \in DigitSet

\* the value of one decimal digit
DigitValue(c) == (CHOOSE k \in DOMAIN DigitChars : DigitChars[k] = c) - 1

RECURSIVE DigitsToInt(_)
\* the value of a run of decimal digits
DigitsToInt(s) ==
    IF s = <<>> THEN 0 ELSE 10 * DigitsToInt(SubSeq(s, 1, Len(s) - 1)) + DigitValue(s[Len(s)])

\* int(s) for a text int() accepts
ToInt(s) ==
    IF s[1] = "-" THEN 0 - DigitsToInt(Tail(s))
    ELSE IF s[1] = "+" THEN DigitsToInt(Tail(s))
    ELSE DigitsToInt(s)

\* parse_bloco_line, lines 87-104; `at` is history (the index of the line decoded),
\* not a key of the dictionary
parse_bloco_line(line, at) ==
    LET padded_line == Ljust(line, PadWidth)
    IN  [ nb   |-> Strip(Slice(padded_line, 0, 4)),
          i    |-> At(padded_line, 4),
          tipo |-> Strip(Slice(padded_line, 5, 11)),
          o    |-> At(padded_line, 11),
          stip |-> Strip(Slice(padded_line, 12, 18)),
          s    |-> <<At(padded_line, 18)>>,
          vent |-> <<Strip(Slice(padded_line, 19, 25))>>,
          vsai |-> Strip(Slice(padded_line, 26, 32)),
          p1   |-> <<Strip(Slice(padded_line, 33, 39))>>,
          p2   |-> <<Strip(Slice(padded_line, 39, 45))>>,
          p3   |-> <<Strip(Slice(padded_line, 45, 51))>>,
          p4   |-> <<Strip(Slice(padded_line, 51, 57))>>,
          vmin |-> Strip(Slice(padded_line, 58, 64)),
          vmax |-> Strip(Slice(padded_line, 65, 71)),
          at   |-> at ]

\* list.append(x) only if x is non-empty
AppendIfAny(list, x) == IF x # <<>> THEN Append(list, x) ELSE list

\* add_continuation_line, lines 107-122
add_continuation_line(b, line) ==
    LET padded_line == Ljust(line, PadWidth)
        vsaiField   == Strip(Slice(padded_line, 26, 32))
    IN  [ b EXCEPT
            !.s    = Append(@, At(padded_line, 18)),
            !.vent = AppendIfAny(@, Strip(Slice(padded_line, 19, 25))),
            !.vsai = IF vsaiField # <<>> THEN vsaiField ELSE @,
            !.p1   = AppendIfAny(@, Strip(Slice(padded_line, 33, 39))),
            !.p2   = AppendIfAny(@, Strip(Slice(padded_line, 39, 45))),
            !.p3   = AppendIfAny(@, Strip(Slice(padded_line, 45, 51))),
            !.p4   = AppendIfAny(@, Strip(Slice(padded_line, 51, 57))) ]

\* lines 164-172: the finished bloco goes to the list its type names
Categorize(data, b) ==
    LET tipo == Upper(b.tipo)
    IN  IF tipo = W_IMPORT THEN [data EXCEPT !.imports = Append(@, b)]
        ELSE IF tipo = W_EXPORT THEN [data EXCEPT !.exports = Append(@, b)]
        ELSE IF tipo = W_ENTRAD THEN [data EXCEPT !.entradas = Append(@, b)]
        ELSE [data EXCEPT !.blocos = Append(@, b)]

\* line 128: the header, a FIMCDU line or a comment line is passed over
IsPassedOver(idx, line) ==
    \/ idx = 0
    \/ Contains(Upper(line), W_FIMCDU)
    \/ StartsWith(Strip(line), <<"(">>)

\* line 156: the next line continues the bloco
IsContinuation(next_line) ==
    /\ Strip(Slice(next_line, 5, 11)) = <<>>
    /\ ~StartsWith(Strip(next_line), <<"(">>)

\* the element lines_iterator yields next
Fetched == block_lines[it + 1]

ParseInit ==
    /\ \E h \in ParseHeaders, body \in SeqsUpTo(ParseBodyLines, MaxBody), e \in ParseEnds :
          block_lines = <<h>> \o body \o <<e>>
    /\ it = 0
    /\ i = 0
    /\ bloco = <<>>
    /\ dcdu_data = <<>>
    /\ handled = <<>>
    /\ ppc = "start"
    /\ ExtractIdle /\ GraphIdle /\ GenIdle

\* lines 67-84: the result dictionary and the header line
ParseHeader ==
    /\ ppc = "start"
    /\ block_lines # <<>>
    /\ IsIntLiteral(Strip(Slice(block_lines[1], 0, 6)))
    /\ dcdu_data' =
          [ name     |-> FilterAlnum(Strip(SliceFrom(block_lines[1], 7))),
            ncdu     |-> ToInt(Strip(Slice(block_lines[1], 0, 6))),
            params   |-> <<>>,
            defvals  |-> <<>>,
            imports  |-> <<>>,
            exports  |-> <<>>,
            entradas |-> <<>>,
            blocos   |-> <<>> ]
    /\ ppc' = "loop"
    /\ UNCHANGED <<block_lines, it, i, bloco, handled>>
    /\ UNCHANGED <<extractVars, graphVars, genVars>>

\* line 84: int() raises ValueError on a header whose first six columns are no number
ParseHeaderRaise ==
    /\ ppc = "start"
    /\ block_lines # <<>>
    /\ ~IsIntLiteral(Strip(Slice(block_lines[1], 0, 6)))
    /\ ppc' = "raised"
    /\ UNCHANGED <<block_lines, it, i, bloco, dcdu_data, handled>>
    /\ UNCHANGED <<extractVars, graphVars, genVars>>

\* lines 127-129
ParseSkip ==
    /\ ppc = "loop" /\ it < Len(block_lines)
    /\ IsPassedOver(it, Fetched)
    /\ i' = it
    /\ it' = it + 1
    /\ handled' = Append(handled, <<it, "skip">>)
    /\ UNCHANGED <<block_lines, bloco, dcdu_data, ppc>>
    /\ UNCHANGED <<extractVars, graphVars, genVars>>

\* lines 133-135
ParseDefpar ==
    /\ ppc = "loop" /\ it < Len(block_lines)
    /\ ~IsPassedOver(it, Fetched)
    /\ StartsWith(Upper(Fetched), W_DEFPAR)
    /\ i' = it
    /\ it' = it + 1
    /\ dcdu_data' = [dcdu_data EXCEPT !.params = Append(@, Strip(Fetched))]
    /\ handled' = Append(handled, <<it, "defpar">>)
    /\ UNCHANGED <<block_lines, bloco, ppc>>
    /\ UNCHANGED <<extractVars, graphVars, genVars>>

\* lines 136-138
ParseDefval ==
    /\ ppc = "loop" /\ it < Len(block_lines)
    /\ ~IsPassedOver(it, Fetched)
    /\ ~StartsWith(Upper(Fetched), W_DEFPAR)
    /\ StartsWith(Upper(Fetched), W_DEFVAL)
    /\ i' = it
    /\ it' = it + 1
    /\ dcdu_data' = [dcdu_data EXCEPT !.defvals = Append(@, Strip(Fetched))]
    /\ handled' = Append(handled, <<it, "defval">>)
    /\ UNCHANGED <<block_lines, bloco, ppc>>
    /\ UNCHANGED <<extractVars, graphVars, genVars>>

\* lines 139-151 and 164-172: a bloco of a type outside multi_line_types
ParseBlocoSingle ==
    /\ ppc = "loop" /\ it < Len(block_lines)
    /\ ~IsPassedOver(it, Fetched)
    /\ ~StartsWith(Upper(Fetched), W_DEFPAR)
    /\ ~StartsWith(Upper(Fetched), W_DEFVAL)
    /\ Upper(parse_bloco_line(Fetched, it).tipo) \notin multi_line_types
    /\ i' = it
    /\ it' = it + 1
    /\ dcdu_data' = Categorize(dcdu_data, parse_bloco_line(Fetched, it))
    /\ handled' = Append(handled, <<it, "bloco">>)
    /\ UNCHANGED <<block_lines, bloco, ppc>>
    /\ UNCHANGED <<extractVars, graphVars, genVars>>

\* lines 139-153: a bloco of a type of multi_line_types enters the lookahead loop
ParseBlocoMulti ==
    /\ ppc = "loop" /\ it < Len(block_lines)
    /\ ~IsPassedOver(it, Fetched)
    /\ ~StartsWith(Upper(Fetched), W_DEFPAR)
    /\ ~StartsWith(Upper(Fetched), W_DEFVAL)
    /\ Upper(parse_bloco_line(Fetched, it).tipo) \in multi_line_types
    /\ i' = it
    /\ it' = it + 1
    /\ bloco' = parse_bloco_line(Fetched, it)
    /\ handled' = Append(handled, <<it, "bloco">>)
    /\ ppc' = "peek"
    /\ UNCHANGED <<block_lines, dcdu_data>>
    /\ UNCHANGED <<extractVars, graphVars, genVars>>

\* the mutant of PeekContinuation that forgets `next(lines_iterator)`
PeekContinuationNoAdvance ==
    /\ ppc = "peek"
    /\ (i + 1) < Len(block_lines)
    /\ IsContinuation(block_lines[i + 2])
    /\ bloco' = add_continuation_line(bloco, block_lines[i + 2])
    /\ handled' = Append(handled, <<i + 1, "cont">>)
    /\ i' = i + 1
    /\ UNCHANGED <<block_lines, it, dcdu_data, ppc>>
    /\ UNCHANGED <<extractVars, graphVars, genVars>>

\* lines 153-160: block_lines[i + 1] is merged into the bloco, the iterator is
\* advanced past one element, and i is incremented
PeekContinuation ==
    /\ ppc = "peek"
    /\ (i + 1) < Len(block_lines)
    /\ IsContinuation(block_lines[i + 2])
    /\ bloco' = add_continuation_line(bloco, block_lines[i + 2])
    /\ handled' = Append(handled, <<i + 1, "cont">>)
    /\ it' = it + 1
    /\ i' = i + 1
    /\ UNCHANGED <<block_lines, dcdu_data, ppc>>
    /\ UNCHANGED <<extractVars, graphVars, genVars>>

\* lines 153, 161-162 and 164-172: the lookahead ends and the bloco is categorized
PeekBreak ==
    /\ ppc = "peek"
    /\ ~((i + 1) < Len(block_lines) /\ IsContinuation(block_lines[i + 2]))
    /\ dcdu_data' = Categorize(dcdu_data, bloco)
    /\ bloco' = <<>>
    /\ ppc' = "loop"
    /\ UNCHANGED <<block_lines, it, i, handled>>
    /\ UNCHANGED <<extractVars, graphVars, genVars>>

\* line 174: the iterator is exhausted
ParseReturn ==
    /\ ppc = "loop" /\ it >= Len(block_lines)
    /\ ppc' = "done"
    /\ UNCHANGED <<block_lines, it, i, bloco, dcdu_data, handled>>
    /\ UNCHANGED <<extractVars, graphVars, genVars>>

ParseNext ==
    \/ ParseHeader
    \/ ParseHeaderRaise
    \/ ParseSkip
    \/ ParseDefpar
    \/ ParseDefval
    \/ ParseBlocoSingle
    \/ ParseBlocoMulti
    \/ PeekContinuation
    \/ PeekBreak
    \/ ParseReturn

SpecParse == ParseInit /\ [][ParseNext]_vars

(***************************************************************************)
(* dcdu_to_reactflow (cdu_json_converter.py 4-82).  The argument is a DCDU *)
(* whose blocks carry an integer nb decoded from the four columns of the   *)
(* number field, and the vsai, vent, tipo and stip of the record.          *)
(***************************************************************************)
\* the number column (columns 0-3 of a block record) of the blocks of the model
NbFields ==
    { Sp(3) \o <<"7">>, Sp(2) \o <<"4","2">>, <<"9","9","9","9">> }

\* <<tipo, stip>> of the blocks of the model
GraphTipos ==
    { <<W_ENTRAD, <<>>>>, <<W_IMPORT, <<>>>>, <<W_FUNCAO, <<"X","*","*","2">>>>,
      <<W_EXPORT, <<>>>> }

\* the output variables of the blocks of the model
GraphVsai == { <<>>, <<"x">>, <<"X">> }

\* the input-variable lists of the blocks of the model
GraphVent == { <<>>, <<<<"x">>>>, << <<"X">>, <<"x">> >> }

GraphBlocks ==
    { [nb |-> ToInt(Strip(f)), tipo |-> t[1], stip |-> t[2], vsai |-> o, vent |-> v] :
        f \in NbFields, t \in GraphTipos, o \in GraphVsai, v \in GraphVent }

\* the DCDU of a list of blocks: each block is filed under its type
DcduOf(bs) ==
    [ entrads |-> SelectSeq(bs, LAMBDA b : b.tipo = W_ENTRAD),
      imports |-> SelectSeq(bs, LAMBDA b : b.tipo = W_IMPORT),
      blocos  |-> SelectSeq(bs, LAMBDA b : b.tipo \notin {W_ENTRAD, W_IMPORT, W_EXPORT}),
      exports |-> SelectSeq(bs, LAMBDA b : b.tipo = W_EXPORT) ]

\* line 6
all_blocks == d.entrads \o d.imports \o d.blocos \o d.exports

RECURSIVE IntToDigits(_)
\* str(n) for n >= 0
IntToDigits(n) ==
    IF n < 10 THEN <<DigitChars[n + 1]>>
    ELSE Append(IntToDigits(n \div 10), DigitChars[(n % 10) + 1])

\* digits padded with zeros on the left to width w
ZeroFill(digits, w) ==
    IF Len(digits) >= w THEN digits ELSE [k \in 1..(w - Len(digits)) |-> "0"] \o digits

\* f"{n:d}": the mutant of Format04d that forgets the padding
FormatNoPad(n) == IF n < 0 THEN <<"-">> \o IntToDigits(0 - n) ELSE IntToDigits(n)

\* f"{n:04d}", lines 11, 17 and 60: the sign counts in the width
Format04d(n) ==
    IF n < 0 THEN <<"-">> \o ZeroFill(IntToDigits(0 - n), 3) ELSE ZeroFill(IntToDigits(n), 4)

\* s.title(): a letter is upper-cased after a non-letter and lower-cased after a letter
Title(s) ==
    [ k \in 1..Len(s) |->
        IF k = 1 \/ s[k - 1] \notin LowerSet \cup UpperSet
        THEN UpperChar(s[k]) ELSE LowerChar(s[k]) ]

RECURSIVE JoinWith(_, _)
\* sep.join(list)
JoinWith(sep, list) ==
    IF list = <<>> THEN <<>>
    ELSE IF Len(list) = 1 THEN list[1]
    ELSE list[1] \o sep \o JoinWith(sep, Tail(list))

\* lines 18-22
NodeType(b) ==
    IF Lower(b.tipo) = Lower(W_FUNCAO)
    THEN IF Lower(b.stip) = <<"x","*","*","2">> THEN <<"x","2">> ELSE Lower(b.stip)
    ELSE Lower(b.tipo)

\* lines 23-48; an optional key of the dict is a list of no or one value.  The
\* blocks of the model carry no p1, p2, vmin or vmax, so those keys are never set
NodeData(b) ==
    [ label |-> Title(b.tipo),
      id    |-> Format04d(b.nb),
      Vout  |-> b.vsai,
      Vin   |-> IF b.vent = <<>> THEN <<>>
                ELSE IF Len(b.vent) = 1 THEN <<b.vent[1]>>
                ELSE << <<"[">> \o JoinWith(<<",">>, b.vent) \o <<"]">> >>,
      stip  |-> IF b.stip # <<>> THEN <<b.stip>> ELSE <<>> ]

\* lines 50-55
NodeOf(b) == [id |-> Format04d(b.nb), type |-> NodeType(b), data |-> NodeData(b)]

W_EDGE == <<"r","e","a","c","t","f","l","o","w","_","_","e","d","g","e","-">>

W_VOUT == <<"v","o","u","t","-">>

W_VIN == <<"v","i","n">>

\* var_to_node.get(vin): <<>> stands for None
Lookup(index, vin) == IF vin \in DOMAIN index THEN index[vin] ELSE <<>>

RECURSIVE EdgesFrom(_, _, _)
\* lines 61-73, from the idx-th input variable of b on
EdgesFrom(index, b, idx) ==
    IF idx > Len(b.vent) THEN <<>>
    ELSE LET src    == Lookup(index, b.vent[idx])
             tgt    == Format04d(b.nb)
             suffix == IF idx > 1 THEN W_VIN \o IntToDigits(idx) ELSE W_VIN
             edge   == [ id     |-> W_EDGE \o src \o W_VOUT \o tgt \o suffix,
                         source |-> src,
                         target |-> tgt,
                         type   |-> "default" ]
         IN  IF src = <<>>
             THEN EdgesFrom(index, b, idx + 1)
             ELSE <<edge>> \o EdgesFrom(index, b, idx + 1)

\* the block numbers of a list of blocks are pairwise distinct
UniqueNumbers(bs) == \A m \in 1..Len(bs), n \in 1..Len(bs) : m # n => bs[m].nb # bs[n].nb

GraphInit ==
    /\ \E m \in 0..MaxBlocks : \E bs \in [1..m -> GraphBlocks] :
          UniqueNumbers(bs) /\ d = DcduOf(bs)
    /\ var_to_node = <<>>
    /\ nodes = <<>>
    /\ edges = <<>>
    /\ gk = 1
    /\ gpc = "index"
    /\ ExtractIdle /\ ParseIdle /\ GenIdle

\* lines 10-13: one iteration of the loop that builds var_to_node
GraphIndex ==
    /\ gpc = "index" /\ gk <= Len(all_blocks)
    /\ var_to_node' =
          IF all_blocks[gk].vsai # <<>>
          THEN (all_blocks[gk].vsai :> Format04d(all_blocks[gk].nb)) @@ var_to_node
          ELSE var_to_node
    /\ gk' = gk + 1
    /\ UNCHANGED <<d, nodes, edges, gpc>>
    /\ UNCHANGED <<extractVars, parseVars, genVars>>

\* lines 16-55: one iteration of the loop that builds the nodes
GraphNode ==
    /\ gpc = "nodes" /\ gk <= Len(all_blocks)
    /\ nodes' = Append(nodes, NodeOf(all_blocks[gk]))
    /\ gk' = gk + 1
    /\ UNCHANGED <<d, var_to_node, edges, gpc>>
    /\ UNCHANGED <<extractVars, parseVars, genVars>>

\* lines 59-73: one iteration of the loop that builds the edges
GraphEdges ==
    /\ gpc = "edges" /\ gk <= Len(all_blocks)
    /\ edges' = edges \o EdgesFrom(var_to_node, all_blocks[gk], 1)
    /\ gk' = gk + 1
    /\ UNCHANGED <<d, var_to_node, nodes, gpc>>
    /\ UNCHANGED <<extractVars, parseVars, genVars>>

\* a loop over all_blocks is exhausted: the next loop starts, or (line 75) the
\* graph is returned
GraphAdvance ==
    /\ gpc \in {"index", "nodes", "edges"} /\ gk > Len(all_blocks)
    /\ gpc' = IF gpc = "index" THEN "nodes" ELSE IF gpc = "nodes" THEN "edges" ELSE "done"
    /\ gk' = 1
    /\ UNCHANGED <<d, var_to_node, nodes, edges>>
    /\ UNCHANGED <<extractVars, parseVars, genVars>>

GraphNext ==
    \/ GraphIndex
    \/ GraphNode
    \/ GraphEdges
    \/ GraphAdvance

SpecGraph == GraphInit /\ [][GraphNext]_vars

(***************************************************************************)
(* generate_cdu_from_blocks (exporter/cdu_generator.py 1-26).  A block     *)
(* descriptor carries type, label, vin, vout and parameters; a parameter   *)
(* value is modelled by the text str() gives it.                           *)
(***************************************************************************)
W_GAIN == <<"G","A","I","N">>

W_INTEGRATOR == <<"I","N","T","E","G","R","A","T","O","R">>

W_integrator == <<"i","n","t","e","g","r","a","t","o","r">>

W_SUM == <<"S","U","M">>

W_INPUT == <<"I","N","P","U","T">>

W_OUTPUT == <<"O","U","T","P","U","T">>

W_FOO == <<"F","O","O">>

\* "* CDU Generated from Control Diagram", line 2
GenHeader ==
    <<"*"," ">> \o <<"C","D","U">> \o <<" ">> \o <<"G","e","n","e","r","a","t","e","d">>
        \o <<" ">> \o <<"f","r","o","m">> \o <<" ">> \o <<"C","o","n","t","r","o","l">>
        \o <<" ">> \o <<"D","i","a","g","r","a","m">>

\* "* Unknown block type ", line 24
W_UNKNOWN ==
    <<"*"," ">> \o <<"U","n","k","n","o","w","n">> \o <<" ">> \o <<"b","l","o","c","k">>
        \o <<" ">> \o <<"t","y","p","e">> \o <<" ">>

\* str(1.0), the default of K and T
W_ONE == <<"1",".","0">>

\* <<type, label>> of the descriptors of the model
GenTypes ==
    { <<W_GAIN, <<"G","1">>>>, <<W_integrator, <<"I","1">>>>, <<W_SUM, <<"S","1">>>>,
      <<W_INPUT, <<"N","1">>>>, <<W_OUTPUT, <<"O","1">>>>, <<W_FOO, <<"U","1">>>> }

\* the vin lists of the descriptors of the model
GenVin == { <<>>, <<<<"x">>>>, << <<"a","b">>, <<"c">> >> }

\* the parameters of the descriptors of the model: {} and {"K": 2.5, "T": 0.5}
GenParams == { <<>>, ("K" :> <<"2",".","5">>) @@ ("T" :> <<"0",".","5">>) }

GenBlocks ==
    { [type |-> t[1], label |-> t[2], vin |-> v, vout |-> <<"y">>, parameters |-> q] :
        t \in GenTypes, v \in GenVin, q \in GenParams }

\* params.get(key, 1.0), formatted
ParamText(params, key) == IF key \in DOMAIN params THEN params[key] ELSE W_ONE

\* line 5
block_type == Upper(blocks[gi].type)

\* line 7
vin == JoinWith(<<",">>, blocks[gi].vin)

GenInit ==
    /\ blocks \in SeqsUpTo(GenBlocks, MaxGenBlocks)
    /\ lines = <<GenHeader>>
    /\ gi = 1
    /\ result = <<>>
    /\ xpc = "loop"
    /\ ExtractIdle /\ ParseIdle /\ GraphIdle

\* lines 11-13
GenGain ==
    /\ xpc = "loop" /\ gi <= Len(blocks)
    /\ block_type = W_GAIN
    /\ lines' = Append(lines,
          blocks[gi].label \o <<" ">> \o W_GAIN \o <<" ">> \o vin \o <<" ">>
              \o blocks[gi].vout \o <<" ", "K", "=">> \o ParamText(blocks[gi].parameters, "K"))
    /\ gi' = gi + 1
    /\ UNCHANGED <<blocks, result, xpc>>
    /\ UNCHANGED <<extractVars, parseVars, graphVars>>

\* lines 14-16
GenIntegrator ==
    /\ xpc = "loop" /\ gi <= Len(blocks)
    /\ block_type = W_INTEGRATOR
    /\ lines' = Append(lines,
          blocks[gi].label \o <<" ", "I", "N", "T", " ">> \o vin \o <<" ">>
              \o blocks[gi].vout \o <<" ", "T", "=">> \o ParamText(blocks[gi].parameters, "T"))
    /\ gi' = gi + 1
    /\ UNCHANGED <<blocks, result, xpc>>
    /\ UNCHANGED <<extractVars, parseVars, graphVars>>

\* lines 17-18
GenSum ==
    /\ xpc = "loop" /\ gi <= Len(blocks)
    /\ block_type = W_SUM
    /\ lines' = Append(lines,
          blocks[gi].label \o <<" ">> \o W_SUM \o <<" ">> \o vin \o <<" ">> \o blocks[gi].vout)
    /\ gi' = gi + 1
    /\ UNCHANGED <<blocks, result, xpc>>
    /\ UNCHANGED <<extractVars, parseVars, graphVars>>

\* lines 19-20
GenInput ==
    /\ xpc = "loop" /\ gi <= Len(blocks)
    /\ block_type = W_INPUT
    /\ lines' = Append(lines, blocks[gi].label \o <<" ", "I", "N", "P", " ">> \o blocks[gi].vout)
    /\ gi' = gi + 1
    /\ UNCHANGED <<blocks, result, xpc>>
    /\ UNCHANGED <<extractVars, parseVars, graphVars>>

\* lines 21-22: vin is the joined text, and vin[0] its first character
GenOutput ==
    /\ xpc = "loop" /\ gi <= Len(blocks)
    /\ block_type = W_OUTPUT
    /\ vin # <<>>
    /\ lines' = Append(lines, blocks[gi].label \o <<" ", "O", "U", "T", " ">> \o <<At(vin, 0)>>)
    /\ gi' = gi + 1
    /\ UNCHANGED <<blocks, result, xpc>>
    /\ UNCHANGED <<extractVars, parseVars, graphVars>>

\* line 22: vin[0] raises IndexError on the empty text
GenOutputRaise ==
    /\ xpc = "loop" /\ gi <= Len(blocks)
    /\ block_type = W_OUTPUT
    /\ vin = <<>>
    /\ xpc' = "raised"
    /\ UNCHANGED <<blocks, lines, gi, result>>
    /\ UNCHANGED <<extractVars, parseVars, graphVars>>

\* the mutant of GenUnknown that writes nothing for an unrecognized type
GenUnknownSilent ==
    /\ xpc = "loop" /\ gi <= Len(blocks)
    /\ block_type \notin {W_GAIN, W_INTEGRATOR, W_SUM, W_INPUT, W_OUTPUT}
    /\ gi' = gi + 1
    /\ UNCHANGED <<blocks, lines, result, xpc>>
    /\ UNCHANGED <<extractVars, parseVars, graphVars>>

\* lines 23-24
GenUnknown ==
    /\ xpc = "loop" /\ gi <= Len(blocks)
    /\ block_type \notin {W_GAIN, W_INTEGRATOR, W_SUM, W_INPUT, W_OUTPUT}
    /\ lines' = Append(lines, W_UNKNOWN \o block_type)
    /\ gi' = gi + 1
    /\ UNCHANGED <<blocks, result, xpc>>
    /\ UNCHANGED <<extractVars, parseVars, graphVars>>

\* line 26
GenReturn ==
    /\ xpc = "loop" /\ gi > Len(blocks)
    /\ result' = JoinWith(<<"\n">>, lines)
    /\ xpc' = "done"
    /\ UNCHANGED <<blocks, lines, gi>>
    /\ UNCHANGED <<extractVars, parseVars, graphVars>>

GenNext ==
    \/ GenGain
    \/ GenIntegrator
    \/ GenSum
    \/ GenInput
    \/ GenOutput
    \/ GenOutputRaise
    \/ GenUnknown
    \/ GenReturn

SpecGen == GenInit /\ [][GenNext]_vars

(***************************************************************************)
(* Properties of extract_dcdu_blocks (checked under SpecExtract)           *)
(***************************************************************************)
\* the lines of text[a..b] that are neither blank nor comments
Kept(a, b) == SelectSeq(SubSeq(text, a, b), LAMBDA l : ~IsBlankOrComment(l))

\* the list is what is left of a run of lines already read
IsSegmentRead(l) == \E a \in 1..(pos - 1), b \in 1..(pos - 1) : a < b /\ l = Kept(a, b)

\* the number of FIMCDU lines among the lines already read
FimcduLinesRead == Cardinality({k \in 1..(pos - 1) : HasFimcdu(text[k])})

\* C6 (as amended): every returned list is the kept lines of a run of the input
\* that starts with the header line that opened the section and ends with a
\* FIMCDU line, and no line strictly between its first and its last line is a
\* FIMCDU line; there are at most as many lists as FIMCDU lines read, so a
\* section whose FIMCDU never arrives contributes none.
C6_ListsAreClosedSections ==
    /\ \A n \in 1..Len(all_dcdu_blocks) :
          LET l == all_dcdu_blocks[n]
          IN  /\ Len(l) >= 2
              /\ IsSegmentRead(l)
              /\ HasDcdu(l[1]) /\ MatchesHeader(l[1])
              /\ HasFimcdu(l[Len(l)])
              /\ \A j \in 2..(Len(l) - 1) : ~HasFimcdu(l[j])
    /\ Len(all_dcdu_blocks) <= FimcduLinesRead

\* C6 witness: the file is exhausted with one section captured and a later
\* section still open, whose lines are in no returned list
C6_Witness ==
    /\ epc = "done"
    /\ Len(all_dcdu_blocks) = 1
    /\ in_dcdu_block
    /\ Len(current_block) >= 2

\* C6 (as claimed): no line of a returned list before its last line is a
\* FIMCDU line, its first line included
C6_NoFimcduBeforeLast ==
    \A n \in 1..Len(all_dcdu_blocks) :
        LET l == all_dcdu_blocks[n]
        IN  /\ HasFimcdu(l[Len(l)])
            /\ \A j \in 1..(Len(l) - 1) : ~HasFimcdu(l[j])

\* a standalone 999999 line
IsSentinel(line) == Strip(line) = W_SENTINEL

\* C7 (as claimed): a 999999 line met while a section is in progress resets the
\* section (nothing accumulated, no section in progress), and no returned list
\* holds a 999999 line
C7_SentinelResetsSection ==
    [][ /\ (epc = "loop" /\ pos <= Len(text) /\ in_dcdu_block /\ IsSentinel(text[pos]))
            => (~in_dcdu_block' /\ current_block' = <<>>)
        /\ \A n \in 1..Len(all_dcdu_blocks') :
              \A j \in 1..Len(all_dcdu_blocks'[n]) : ~IsSentinel(all_dcdu_blocks'[n][j])
      ]_vars

(***************************************************************************)
(* Properties of parse_dcdu_block (checked under SpecParse)                *)
(***************************************************************************)
\* the blocos categorized so far
FinishedBlocos ==
    IF ppc \in {"loop", "peek", "done"}
    THEN Range(dcdu_data.imports) \cup Range(dcdu_data.exports)
            \cup Range(dcdu_data.entradas) \cup Range(dcdu_data.blocos)
    ELSE {}

\* the blocos categorized so far and the one being assembled
AllBlocos == FinishedBlocos \cup (IF ppc = "peek" THEN {bloco} ELSE {})

RECURSIVE ContRun(_)
\* the number of consecutive continuation entries of `handled` from position k on
ContRun(k) ==
    IF k > Len(handled) \/ handled[k][2] # "cont" THEN 0 ELSE 1 + ContRun(k + 1)

\* the number of entries of `handled` of a kind
CountKind(kind) == Cardinality({k \in 1..Len(handled) : handled[k][2] = kind})

\* the continuation counts the specification gives the fixed-count types
FixedCount(tipo) ==
    IF tipo = <<"A","C","U","M">> THEN 3
    ELSE IF tipo = <<"I","N","T","R","E","S">> THEN 2
    ELSE IF tipo = W_COMPAR THEN 1
    ELSE 0

\* the variable-count types the claim names
VariableCountTypes ==
    { <<"D","I","V","S","A","O">>, <<"M","A","X">>, <<"M","I","N">>,
      <<"M","U","L","T","P","L">>, W_SOMA, <<"P","O","L","(","S",")">> }

\* C2 (as claimed): a bloco of a fixed-count type (ACUM 3, INTRES 2, COMPAR 1)
\* followed by at least that many lines before the closing line has consumed
\* exactly that many continuation lines, whatever their type column holds
C2_FixedCountConsumed ==
    \A b \in FinishedBlocos :
        (/\ FixedCount(Upper(b.tipo)) > 0
         /\ b.at + FixedCount(Upper(b.tipo)) <= Len(block_lines) - 2)
        => Len(b.s) = 1 + FixedCount(Upper(b.tipo))

\* C8 (as claimed): in the lookahead of a variable-count bloco the next line is
\* absorbed exactly when there is one, its type column (columns 5..10 of the line
\* padded to 71) is blank and it is not a FIMCDU line; otherwise the bloco is
\* finished and the line is left to start the next record
C8_LookaheadStopsAtFimcdu ==
    [][ (ppc = "peek" /\ Upper(bloco.tipo) \in VariableCountTypes)
        => LET more ==
                 /\ (i + 1) < Len(block_lines)
                 /\ Strip(Slice(Ljust(block_lines[i + 2], PadWidth), 5, 11)) = <<>>
                 /\ ~Contains(Upper(block_lines[i + 2]), W_FIMCDU)
           IN  IF more
               THEN ppc' = "peek" /\ Len(bloco'.s) = Len(bloco.s) + 1 /\ it' = it + 1
               ELSE ppc' = "loop" /\ it' = it
      ]_vars

\* C9 (as claimed): no bloco with an empty type is collected
C9_NoEmptyTipo == \A b \in FinishedBlocos : b.tipo # <<>>

ConsumesOutputOf(b, a) ==
    /\ a.vsai # <<>>
    /\ \E k \in 1..Len(b.vent) : Upper(b.vent[k]) = Upper(a.vsai)

\* the returned graph has an edge from block a to block b
HasEdge(a, b) ==
    \E k \in 1..Len(edges) :
        edges[k].source = Format04d(a.nb) /\ edges[k].target = Format04d(b.nb)

\* C1 (as claimed): in the returned graph there is an edge from a block A to
\* another block B exactly when B declares an input variable equal,
\* case-insensitively, to the output variable of A
C1_EdgeIffProducerConsumer ==
    gpc = "done" =>
        \A m \in 1..Len(all_blocks), n \in 1..Len(all_blocks) :
            m # n =>
                (HasEdge(all_blocks[m], all_blocks[n])
                    <=> ConsumesOutputOf(all_blocks[n], all_blocks[m]))

\* C5: the k-th node is that of the k-th block; its id is four characters, all
\* of them decimal digits, whose value is the number of the block; and no two
\* nodes have the same id
C5_NodeIdsFourDigitsUnique ==
    /\ Len(nodes) <= Len(all_blocks)
    /\ \A k \in 1..Len(nodes) :
          /\ Len(nodes[k].id) = 4
          /\ \A c \in 1..Len(nodes[k].id) : nodes[k].id[c] \in DigitSet
          /\ DigitsToInt(nodes[k].id) = all_blocks[k].nb
          /\ nodes[k].data.id = nodes[k].id
    /\ \A k \in 1..Len(nodes), m \in 1..Len(nodes) : k # m => nodes[k].id # nodes[m].id

\* C5 witness: the graph is returned with two nodes, one whose id is padded with
\* zeros and one whose number fills the four characters
C5_Witness ==
    /\ gpc = "done"
    /\ \E k \in 1..Len(nodes), m \in 1..Len(nodes) :
          /\ nodes[k].id[1] = "0"
          /\ nodes[m].id[1] # "0"

(***************************************************************************)
(* Properties of generate_cdu_from_blocks (checked under SpecGen)          *)
(***************************************************************************)
RECURSIVE SplitLines(_)
\* the lines of a text: the runs of characters between its newlines
SplitLines(t) ==
    LET n == RunLength(t, 1, {c \in Range(t) : c # "\n"})
    IN  IF n = Len(t) THEN <<t>>
        ELSE <<SubSeq(t, 1, n)>> \o SplitLines(SubSeq(t, n + 2, Len(t)))

\* the number of lines of a text; the empty text has none
LineCount(t) == IF t = <<>> THEN 0 ELSE Len(SplitLines(t))

\* the type of the descriptor is one the generator recognizes
IsRecognized(b) == Upper(b.type) \in {W_GAIN, W_INTEGRATOR, W_SUM, W_INPUT, W_OUTPUT}

\* the line is the one the generator writes for descriptor b: it begins with the
\* label of b, or is the comment on the type of b when the type is unrecognized
IsLineOf(line, b) ==
    IF IsRecognized(b)
    THEN StartsWith(line, b.label \o <<" ">>)
    ELSE line = W_UNKNOWN \o Upper(b.type)

C4_GenerationNeverRaises ==
    /\ xpc # "raised"
    /\ \A k \in 1..(Len(lines) - 1) :
          ~IsRecognized(blocks[k]) => StartsWith(lines[k + 1], <<"*">>)

=============================================================================
